---- MODULE Spec2Model ----
(***************************************************************************)
(* Model of the BiBim-Cuisine-Traiteur front end: the three section        *)
(* loaders (Menu, Gallery, Planning), the Planning section's map position  *)
(* and structured event markup, and the contact relay endpoint.            *)
(***************************************************************************)
EXTENDS Integers, Sequences, FiniteSets, TLC

\* ------------------------------------------------------------------ bounds

\* Longest item collection a seed or a fetch result holds.
MaxItems == 2
\* Most fetches one section instance issues (mount fetch plus retries).
MaxFetches == 2

\* ------------------------------------------------------- JavaScript values

\* JavaScript values are tagged so that truthiness is computed, not assumed.
Undefined == [t |-> "undefined"]
Null == [t |-> "null"]
Str(s) == [t |-> "string", v |-> s]
Arr(s) == [t |-> "array", v |-> s]
Obj(r) == [t |-> "object", v |-> r]

\* ToBoolean: undefined, null and the empty string are falsy; every array and
\* every object (the empty array included) is truthy.
Truthy(x) ==
  CASE x.t = "undefined" -> FALSE
    [] x.t = "null" -> FALSE
    [] x.t = "string" -> x.v # ""
    [] OTHER -> TRUE

\* ---------------------------------------------------------------- sections

Sections == {"Menu", "Gallery", "Planning"}

\* Menu and Gallery documents are opaque here: the _id stands for the document.
\* The content source holds the documents 1..n, for some n.
Documents == { [i \in 1..n |-> [_id |-> i]] : n \in 0..MaxItems }

\* Planning documents (PlanningItem): day, place, time and the optional location.
\* Coordinates are in units of 1e-4 degree.
Events ==
  { [_id |-> "1", day |-> "Mardi", place |-> "Marche de Lamastre", time |-> "8h-13h",
     location |-> Obj([lat |-> 449865, lng |-> 45833])],
    [_id |-> "2", day |-> "Vendredi", place |-> "Place de la Mairie", time |-> "18h-22h",
     location |-> Obj([lat |-> 448930, lng |-> 46580])],
    [_id |-> "3", day |-> "Jeudi", place |-> "Tournon", time |-> "11h-14h",
     location |-> Undefined],
    [_id |-> "4", day |-> "Samedi", place |-> "Privas", time |-> "19h-22h",
     location |-> Null] }

SeqsUpTo(S, n) == UNION { [1..k -> S] : k \in 0..n }

\* Position of a day name in ascending string order, as GROQ's order(day asc) sorts.
DayRank(d) ==
  CASE d = "Dimanche" -> 1 [] d = "Jeudi" -> 2 [] d = "Lundi" -> 3 [] d = "Mardi" -> 4
    [] d = "Mercredi" -> 5 [] d = "Samedi" -> 6 [] d = "Vendredi" -> 7

OrderedByDay(q) == \A i \in 1..(Len(q) - 1) : DayRank(q[i].day) <= DayRank(q[i + 1].day)

\* What sanityClient.fetch can resolve with, per section.
FetchResults(s) ==
  IF s = "Planning"
    THEN { q \in SeqsUpTo(Events, MaxItems) : OrderedByDay(q) }
    ELSE Documents

\* What a parent can pass as initial...Items: nothing, or an array in any order.
InitialProps(s) ==
  {Undefined} \cup
  { Arr(q) : q \in IF s = "Planning" THEN SeqsUpTo(Events, MaxItems) ELSE Documents }

VARIABLES
  initial,   \* initial[s]: the initial...Items prop of section s
  items,     \* items[s]: menuItems / galleryItems / planningItems
  loading,   \* loading[s]
  error,     \* error[s]: Null or Str(message)
  mounted,   \* mounted[s]: the mount effect has run
  pending,   \* pending[s]: sanityClient.fetch promises not yet settled
  issued,    \* issued[s]: sanityClient.fetch calls made so far
  routePc,   \* where the POST handler of /api/contact stands
  body,      \* what request.json() yields for the request being handled
  transport, \* whether the SMTP transport delivers ("up") or throws ("down")
  attempts,  \* transporter.sendMail calls made for the request
  response,  \* the NextResponse returned, Null before
  logged,    \* what the handler's catch block passed to console.error, Null before
  formData,     \* the Contact form's fields: name, email, message
  isSubmitting, \* the Contact form's in-flight flag
  submitMessage,\* the Contact form's feedback, Null or Str(message)
  flight        \* the fetch('/api/contact') calls of handleSubmit not yet finished

loaderVars == <<initial, items, loading, error, mounted, pending, issued>>
routeVars == <<routePc, body, transport, attempts, response, logged>>
formVars == <<formData, isSubmitting, submitMessage, flight>>
vars == <<loaderVars, routeVars, formVars>>

\* useState(initialItems || [])
InitialItems(prop) == IF Truthy(prop) THEN prop.v ELSE <<>>

\* A loader that takes an empty seed for no seed: useState(!initialItems?.length).
InitialLoading_EmptyIsNoSeed(prop) == ~Truthy(prop) \/ Len(prop.v) = 0

\* useState(!initialItems)
InitialLoading(prop) == ~Truthy(prop)

RouteIdle ==
  /\ routePc = "idle"
  /\ body = Undefined
  /\ transport = "up"
  /\ attempts = 0
  /\ response = Null
  /\ logged = Null

\* useState({ name: '', email: '', message: '' }), useState(false), useState(null)
FormIdle ==
  /\ formData = [name |-> "", email |-> "", message |-> ""]
  /\ isSubmitting = FALSE
  /\ submitMessage = Null
  /\ flight = <<>>

Init ==
  /\ RouteIdle
  /\ FormIdle
  /\ \E m \in InitialProps("Menu"), g \in InitialProps("Gallery"), p \in InitialProps("Planning") :
       initial = [s \in Sections |-> CASE s = "Menu" -> m [] s = "Gallery" -> g [] OTHER -> p]
  /\ items = [s \in Sections |-> InitialItems(initial[s])]
  /\ loading = [s \in Sections |-> InitialLoading(initial[s])]
  /\ error = [s \in Sections |-> Null]
  /\ mounted = [s \in Sections |-> FALSE]
  /\ pending = [s \in Sections |-> 0]
  /\ issued = [s \in Sections |-> 0]

\* setError's argument in each section's catch block.
ErrorMessage(s) ==
  CASE s = "Menu" -> "Echec du chargement des elements du menu. Veuillez reessayer."
    [] s = "Gallery" -> "Echec du chargement des elements de la galerie. Veuillez reessayer."
    [] s = "Planning" -> "Echec du chargement du planning. Veuillez reessayer."

\* ------------------------------------------------- Planning: map and markup

\* planningItems.find(p => p.location): the first entry whose location is truthy.
RECURSIVE nextEventWithLocation(_)
nextEventWithLocation(q) ==
  IF Len(q) = 0 THEN Undefined
  ELSE IF Truthy(Head(q).location) THEN Obj(Head(q))
  ELSE nextEventWithLocation(Tail(q))

\* Paris, [48.8566, 2.3522], in units of 1e-4 degree.
DefaultLat == 488566
DefaultLng == 23522
defaultPosition == <<DefaultLat, DefaultLng>>

\* A selection that looks at the first entry only.
position_HeadOnly(q) ==
  IF Len(q) > 0 /\ Truthy(Head(q).location)
    THEN <<Head(q).location.v.lat, Head(q).location.v.lng>>
    ELSE defaultPosition

\* nextEventWithLocation?.location ? [lat, lng] : defaultPosition
position(q) ==
  LET e == nextEventWithLocation(q) IN
  IF Truthy(e) /\ Truthy(e.v.location)
    THEN <<e.v.location.v.lat, e.v.location.v.lng>>
    ELSE defaultPosition

\* A popup text taken from the first entry of the collection, located or not.
popupText_FromHead(q) ==
  IF Len(q) > 0 THEN <<Head(q).place, " - ", Head(q).time>> ELSE <<"Prochainement ici !">>

\* The template literal `${place} - ${time}` is kept as its pieces.
popupText(q) ==
  LET e == nextEventWithLocation(q) IN
  IF Truthy(e) THEN <<e.v.place, " - ", e.v.time>> ELSE <<"Prochainement ici !">>

\* A record with latitude and longitude exchanged.
EventRecord_SwapsLatLng(item) ==
  IF ~Truthy(item.location) THEN Null
  ELSE Obj([type |-> "Event",
            location |-> [type |-> "Place", name |-> item.place, address |-> item.place,
                          geo |-> [type |-> "GeoCoordinates",
                                   latitude |-> item.location.v.lng,
                                   longitude |-> item.location.v.lat]]])

\* The callback of planningItems.map in generateEventSchema.
EventRecord(item) ==
  IF ~Truthy(item.location) THEN Null
  ELSE Obj([type |-> "Event",
            name |-> <<"BiBim Cuisine a ", item.place>>,
            description |-> <<"Retrouvez notre foodtruck a ", item.place, " le ", item.day,
                              " de ", item.time, ".">>,
            location |-> [type |-> "Place", name |-> item.place, address |-> item.place,
                          geo |-> [type |-> "GeoCoordinates",
                                   latitude |-> item.location.v.lat,
                                   longitude |-> item.location.v.lng]],
            organizer |-> [type |-> "Organization", name |-> "BiBim Cuisine"]])

\* Array.prototype.filter(Boolean)
RECURSIVE FilterBoolean(_)
FilterBoolean(q) ==
  IF Len(q) = 0 THEN <<>>
  ELSE IF Truthy(Head(q)) THEN <<Head(q)>> \o FilterBoolean(Tail(q))
  ELSE FilterBoolean(Tail(q))

\* generateEventSchema: Null, or the <script> whose content is the events array.
generateEventSchema(q) ==
  LET events == FilterBoolean([i \in 1..Len(q) |-> EventRecord(q[i])]) IN
  IF Len(events) = 0 THEN Null ELSE Arr(events)

\* ------------------------------------------------------------------ render

\* A Menu render whose "nothing available" paragraph is not guarded by !error
\* and is part of the error view.
RenderMenu_EmptyMessageUnguarded ==
  IF loading["Menu"]
    THEN [view |-> "loading", errorText |-> Null, retry |-> FALSE,
          list |-> <<>>, emptyMessage |-> FALSE]
  ELSE IF Truthy(error["Menu"])
    THEN [view |-> "error", errorText |-> error["Menu"], retry |-> TRUE,
          list |-> <<>>, emptyMessage |-> Len(items["Menu"]) = 0]
  ELSE [view |-> "content", errorText |-> Null, retry |-> FALSE,
        list |-> [i \in 1..Len(items["Menu"]) |-> items["Menu"][i]._id],
        emptyMessage |-> Len(items["Menu"]) = 0]

\* What a section shows: the view ("loading", "error" or "content"), the error
\* text and the retry button of the error view, the item representations of the
\* content view and its "nothing available" paragraph.
RenderMenu ==
  IF loading["Menu"]
    THEN [view |-> "loading", errorText |-> Null, retry |-> FALSE,
          list |-> <<>>, emptyMessage |-> FALSE]
  ELSE IF Truthy(error["Menu"])
    THEN [view |-> "error", errorText |-> error["Menu"], retry |-> TRUE,
          list |-> <<>>, emptyMessage |-> FALSE]
  ELSE [view |-> "content", errorText |-> Null, retry |-> FALSE,
        list |-> [i \in 1..Len(items["Menu"]) |-> items["Menu"][i]._id],
        emptyMessage |-> Len(items["Menu"]) = 0 /\ ~loading["Menu"] /\ ~Truthy(error["Menu"])]

\* A Gallery render that offers the retry button in the content view too.
RenderGallery_RetryInContent ==
  IF loading["Gallery"]
    THEN [view |-> "loading", errorText |-> Null, retry |-> FALSE,
          list |-> <<>>, emptyMessage |-> FALSE]
  ELSE IF Truthy(error["Gallery"])
    THEN [view |-> "error", errorText |-> error["Gallery"], retry |-> TRUE,
          list |-> <<>>, emptyMessage |-> FALSE]
  ELSE [view |-> "content", errorText |-> Null, retry |-> TRUE,
        list |-> [i \in 1..Len(items["Gallery"]) |-> items["Gallery"][i]._id],
        emptyMessage |-> Len(items["Gallery"]) = 0 /\ ~loading["Gallery"]
                         /\ ~Truthy(error["Gallery"])]

RenderGallery ==
  IF loading["Gallery"]
    THEN [view |-> "loading", errorText |-> Null, retry |-> FALSE,
          list |-> <<>>, emptyMessage |-> FALSE]
  ELSE IF Truthy(error["Gallery"])
    THEN [view |-> "error", errorText |-> error["Gallery"], retry |-> TRUE,
          list |-> <<>>, emptyMessage |-> FALSE]
  ELSE [view |-> "content", errorText |-> Null, retry |-> FALSE,
        list |-> [i \in 1..Len(items["Gallery"]) |-> items["Gallery"][i]._id],
        emptyMessage |-> Len(items["Gallery"]) = 0 /\ ~loading["Gallery"]
                         /\ ~Truthy(error["Gallery"])]

\* A Planning render without the early returns for the map: the map is part of
\* the loading and error views too.
RenderPlanning_MapInEveryView ==
  LET map == Obj([position |-> position(items["Planning"]),
                  popupText |-> popupText(items["Planning"])])
  IN
  IF loading["Planning"]
    THEN [view |-> "loading", errorText |-> Null, retry |-> FALSE,
          list |-> <<>>, emptyMessage |-> FALSE, map |-> map, schema |-> Null]
  ELSE IF Truthy(error["Planning"])
    THEN [view |-> "error", errorText |-> error["Planning"], retry |-> TRUE,
          list |-> <<>>, emptyMessage |-> FALSE, map |-> map, schema |-> Null]
  ELSE [view |-> "content", errorText |-> Null, retry |-> FALSE,
        list |-> [i \in 1..Len(items["Planning"]) |-> items["Planning"][i]._id],
        emptyMessage |-> FALSE,
        map |-> map,
        schema |-> generateEventSchema(items["Planning"])]

\* A Planning render that lists only the entries the markup keeps.
RenderPlanning_ListsLocatedOnly ==
  IF loading["Planning"]
    THEN [view |-> "loading", errorText |-> Null, retry |-> FALSE,
          list |-> <<>>, emptyMessage |-> FALSE, map |-> Null, schema |-> Null]
  ELSE IF Truthy(error["Planning"])
    THEN [view |-> "error", errorText |-> error["Planning"], retry |-> TRUE,
          list |-> <<>>, emptyMessage |-> FALSE, map |-> Null, schema |-> Null]
  ELSE LET HasLocation(e) == Truthy(e.location)
           kept == SelectSeq(items["Planning"], HasLocation)
       IN [view |-> "content", errorText |-> Null, retry |-> FALSE,
           list |-> [i \in 1..Len(kept) |-> kept[i]._id],
           emptyMessage |-> FALSE,
           map |-> Obj([position |-> position(items["Planning"]),
                        popupText |-> popupText(items["Planning"])]),
           schema |-> generateEventSchema(items["Planning"])]

\* The Planning content view has the list, the map and the markup, and no
\* "nothing available" paragraph.
RenderPlanning ==
  IF loading["Planning"]
    THEN [view |-> "loading", errorText |-> Null, retry |-> FALSE,
          list |-> <<>>, emptyMessage |-> FALSE, map |-> Null, schema |-> Null]
  ELSE IF Truthy(error["Planning"])
    THEN [view |-> "error", errorText |-> error["Planning"], retry |-> TRUE,
          list |-> <<>>, emptyMessage |-> FALSE, map |-> Null, schema |-> Null]
  ELSE [view |-> "content", errorText |-> Null, retry |-> FALSE,
        list |-> [i \in 1..Len(items["Planning"]) |-> items["Planning"][i]._id],
        emptyMessage |-> FALSE,
        map |-> Obj([position |-> position(items["Planning"]),
                     popupText |-> popupText(items["Planning"])]),
        schema |-> generateEventSchema(items["Planning"])]

Render(s) ==
  CASE s = "Menu" -> RenderMenu
    [] s = "Gallery" -> RenderGallery
    [] s = "Planning" -> RenderPlanning

\* ----------------------------------------------------------------- actions

\* A fetch that resets neither loading nor error before it awaits.
FetchStart_NoReset(s) ==
  /\ pending' = [pending EXCEPT ![s] = @ + 1]
  /\ issued' = [issued EXCEPT ![s] = @ + 1]
  /\ UNCHANGED <<loading, error>>

\* A fetch that clears the error but does not call setLoading(true).
FetchStart_NoSetLoading(s) ==
  /\ error' = [error EXCEPT ![s] = Null]
  /\ pending' = [pending EXCEPT ![s] = @ + 1]
  /\ issued' = [issued EXCEPT ![s] = @ + 1]
  /\ UNCHANGED loading

\* fetchMenuItems / fetchGalleryItems / fetchPlanningItems up to the await:
\* setLoading(true), setError(null), sanityClient.fetch(query).
FetchStart(s) ==
  /\ loading' = [loading EXCEPT ![s] = TRUE]
  /\ error' = [error EXCEPT ![s] = Null]
  /\ pending' = [pending EXCEPT ![s] = @ + 1]
  /\ issued' = [issued EXCEPT ![s] = @ + 1]

\* A mount effect that never fetches.
MountEffect_NoFetch(s) ==
  /\ ~mounted[s]
  /\ mounted' = [mounted EXCEPT ![s] = TRUE]
  /\ UNCHANGED <<initial, items, loading, error, pending, issued, routeVars, formVars>>

\* useEffect(() => { if (!initialItems) fetchItems(); }, [...]) after the first render.
MountEffect(s) ==
  /\ ~mounted[s]
  /\ mounted' = [mounted EXCEPT ![s] = TRUE]
  /\ IF ~Truthy(initial[s])
       THEN FetchStart(s)
       ELSE UNCHANGED <<loading, error, pending, issued>>
  /\ UNCHANGED <<initial, items, routeVars, formVars>>

\* A fetch whose success path never reaches setLoading(false).
FetchResolve_KeepsLoading(s, data) ==
  /\ pending[s] > 0
  /\ items' = [items EXCEPT ![s] = data]
  /\ pending' = [pending EXCEPT ![s] = @ - 1]
  /\ UNCHANGED <<initial, loading, error, mounted, issued, routeVars, formVars>>

\* The await returns data: setItems(data), then finally setLoading(false).
FetchResolve(s, data) ==
  /\ pending[s] > 0
  /\ items' = [items EXCEPT ![s] = data]
  /\ loading' = [loading EXCEPT ![s] = FALSE]
  /\ pending' = [pending EXCEPT ![s] = @ - 1]
  /\ UNCHANGED <<initial, error, mounted, issued, routeVars, formVars>>

\* A catch block without the finally: loading stays true.
FetchReject_NoFinally(s) ==
  /\ pending[s] > 0
  /\ error' = [error EXCEPT ![s] = Str(ErrorMessage(s))]
  /\ pending' = [pending EXCEPT ![s] = @ - 1]
  /\ UNCHANGED <<initial, items, loading, mounted, issued, routeVars, formVars>>

\* An error state shared by the whole page instead of one per section.
FetchReject_SharedError(s) ==
  /\ pending[s] > 0
  /\ error' = [u \in Sections |-> Str(ErrorMessage(s))]
  /\ loading' = [loading EXCEPT ![s] = FALSE]
  /\ pending' = [pending EXCEPT ![s] = @ - 1]
  /\ UNCHANGED <<initial, items, mounted, issued, routeVars, formVars>>

\* A catch block that replaces the items by a fallback collection of one entry.
FetchReject_FallbackItems(s) ==
  /\ pending[s] > 0
  /\ error' = [error EXCEPT ![s] = Str(ErrorMessage(s))]
  /\ items' = [items EXCEPT ![s] = CHOOSE q \in FetchResults(s) : Len(q) = 1]
  /\ loading' = [loading EXCEPT ![s] = FALSE]
  /\ pending' = [pending EXCEPT ![s] = @ - 1]
  /\ UNCHANGED <<initial, mounted, issued, routeVars, formVars>>

\* The await throws: catch sets the section's message, then finally setLoading(false).
FetchReject(s) ==
  /\ pending[s] > 0
  /\ error' = [error EXCEPT ![s] = Str(ErrorMessage(s))]
  /\ loading' = [loading EXCEPT ![s] = FALSE]
  /\ pending' = [pending EXCEPT ![s] = @ - 1]
  /\ UNCHANGED <<initial, items, mounted, issued, routeVars, formVars>>

\* onClick of the "Reessayer" button, which only the error view renders.
ClickRetry(s) ==
  /\ mounted[s]
  /\ Render(s).retry
  /\ issued[s] < MaxFetches
  /\ FetchStart(s)
  /\ UNCHANGED <<initial, items, mounted, routeVars, formVars>>

Next ==
  \E s \in Sections :
    \/ MountEffect(s)
    \/ \E data \in FetchResults(s) : FetchResolve(s, data)
    \/ FetchReject(s)
    \/ ClickRetry(s)

Spec == Init /\ [][Next]_vars

\* The awaited query of section s settles, one way or the other.
FetchSettles(s) == FetchReject(s) \/ \E data \in FetchResults(s) : FetchResolve(s, data)

\* --------------------------------------------------- contact relay endpoint

\* A value a field of the JSON body can have; Undefined is an absent key.
FieldValues == {Undefined, Null, Str(""), Str("x")}

\* What request.json() can yield: a rejection (the body is not JSON), the JSON
\* value null, a number, a boolean, or an object with any of the three keys.
Unparseable == [t |-> "invalid"]
JsonNumber == [t |-> "number"]
JsonBoolean == [t |-> "boolean"]

Bodies ==
  {Unparseable, Null, JsonNumber, JsonBoolean} \cup
  { Obj(r) : r \in [name : FieldValues, email : FieldValues, message : FieldValues] }

\* const { name, email, message } = <the parsed body>: the three properties of
\* an object; a number or a boolean has none of them; null throws.
Destructured(b) ==
  IF b.t = "object" THEN b.v
  ELSE [name |-> Undefined, email |-> Undefined, message |-> Undefined]

\* The messages of the errors the try block can throw: request.json() on a body
\* that is not JSON, destructuring null, and the transport's failure.
JsonSyntaxError == "Unexpected end of JSON input"
DestructureTypeError == "Cannot destructure property 'name' of null"
SendMailError == "connect ECONNREFUSED 127.0.0.1:587"

\* NextResponse.json({ message }, { status })
JsonResponse(message, status) == Obj([status |-> status, message |-> message])

\* The validation with the first negation dropped: if (name || !email || !message).
MissingFields_DroppedNot(name, email, message) ==
  Truthy(name) \/ ~Truthy(email) \/ ~Truthy(message)

\* if (!name || !email || !message)
MissingFields(name, email, message) == ~Truthy(name) \/ ~Truthy(email) \/ ~Truthy(message)

\* The page as page.tsx composes it: the three sections without props.
InitRoute ==
  /\ RouteIdle
  /\ FormIdle
  /\ initial = [s \in Sections |-> Undefined]
  /\ items = [s \in Sections |-> InitialItems(initial[s])]
  /\ loading = [s \in Sections |-> InitialLoading(initial[s])]
  /\ error = [s \in Sections |-> Null]
  /\ mounted = [s \in Sections |-> FALSE]
  /\ pending = [s \in Sections |-> 0]
  /\ issued = [s \in Sections |-> 0]

\* A request arrives: POST runs up to `await request.json()`.
PostReceive(b, tr) ==
  /\ routePc \in {"idle", "responded"}
  /\ routePc' = "json"
  /\ body' = b
  /\ transport' = tr
  /\ attempts' = 0
  /\ response' = Null
  /\ logged' = Null
  /\ UNCHANGED <<loaderVars, formVars>>

\* A handler whose catch block answers 400 when the body could not be read.
PostAfterJson_CatchAnswers400 ==
  /\ routePc = "json"
  /\ IF body.t = "invalid" \/ body.t = "null"
       THEN /\ response' = JsonResponse("Missing required fields", 400)
            /\ logged' = Str(IF body.t = "invalid" THEN JsonSyntaxError ELSE DestructureTypeError)
            /\ routePc' = "responded"
            /\ UNCHANGED attempts
       ELSE IF MissingFields(Destructured(body).name, Destructured(body).email,
                             Destructured(body).message)
         THEN /\ response' = JsonResponse("Missing required fields", 400)
              /\ routePc' = "responded"
              /\ UNCHANGED <<attempts, logged>>
         ELSE /\ routePc' = "sendMail"
              /\ attempts' = attempts + 1
              /\ UNCHANGED <<response, logged>>
  /\ UNCHANGED <<body, transport, loaderVars, formVars>>

\* From the result of request.json() to the return of the 400 response, to the
\* catch block (json() rejected, or destructuring null threw), or to
\* `await transporter.sendMail(mailOptions)`.
PostAfterJson ==
  /\ routePc = "json"
  /\ IF body.t = "invalid" \/ body.t = "null"
       THEN /\ response' = JsonResponse("Internal server error", 500)
            /\ logged' = Str(IF body.t = "invalid" THEN JsonSyntaxError ELSE DestructureTypeError)
            /\ routePc' = "responded"
            /\ UNCHANGED attempts
       ELSE IF MissingFields(Destructured(body).name, Destructured(body).email,
                             Destructured(body).message)
         THEN /\ response' = JsonResponse("Missing required fields", 400)
              /\ routePc' = "responded"
              /\ UNCHANGED <<attempts, logged>>
         ELSE /\ routePc' = "sendMail"
              /\ attempts' = attempts + 1
              /\ UNCHANGED <<response, logged>>
  /\ UNCHANGED <<body, transport, loaderVars, formVars>>

\* sendMail resolved: the 200 response.
SendMailResolve ==
  /\ routePc = "sendMail"
  /\ transport = "up"
  /\ response' = JsonResponse("Message sent successfully!", 200)
  /\ routePc' = "responded"
  /\ UNCHANGED <<body, transport, attempts, logged, loaderVars, formVars>>

\* A catch block that answers with the error's own message.
SendMailReject_LeaksCause ==
  /\ routePc = "sendMail"
  /\ transport = "down"
  /\ response' = JsonResponse(SendMailError, 500)
  /\ logged' = Str(SendMailError)
  /\ routePc' = "responded"
  /\ UNCHANGED <<body, transport, attempts, loaderVars, formVars>>

\* A catch block that calls sendMail a second time before it gives up.
SendMailReject_RetriesOnce ==
  /\ routePc = "sendMail"
  /\ transport = "down"
  /\ logged' = Str(SendMailError)
  /\ IF attempts < 2
       THEN /\ attempts' = attempts + 1
            /\ UNCHANGED <<response, routePc>>
       ELSE /\ response' = JsonResponse("Internal server error", 500)
            /\ routePc' = "responded"
            /\ UNCHANGED attempts
  /\ UNCHANGED <<body, transport, loaderVars, formVars>>

\* sendMail threw: the catch block logs the error and returns the 500 response.
SendMailReject ==
  /\ routePc = "sendMail"
  /\ transport = "down"
  /\ response' = JsonResponse("Internal server error", 500)
  /\ logged' = Str(SendMailError)
  /\ routePc' = "responded"
  /\ UNCHANGED <<body, transport, attempts, loaderVars, formVars>>

NextRoute ==
  \/ \E b \in Bodies, tr \in {"up", "down"} : PostReceive(b, tr)
  \/ PostAfterJson
  \/ SendMailResolve
  \/ SendMailReject

SpecRoute == InitRoute /\ [][NextRoute]_vars

\* ------------------------------------------------------------ contact form

\* Most fetch('/api/contact') calls the model lets be unfinished at once.
MaxInFlight == 2

Fields == {"name", "email", "message"}

\* What a user can have typed in a field.
FormValues == {"", "a", "b"}

\* What `await fetch('/api/contact', ...)` can yield: a rejection (network
\* failure), or a response with its ok flag and what response.json() yields.
NetworkFailure == [t |-> "rejected"]
HttpReply(ok, json) == [t |-> "response", ok |-> ok, json |-> json]

\* Bodies of responses that are not ok: the endpoint's two error messages, an
\* object with an empty or no message, the JSON value null, and a body that is
\* not JSON (response.json() rejects).
ErrorBodies ==
  {Unparseable, Null} \cup
  { Obj([message |-> m]) :
      m \in {Undefined, Str(""), Str("Internal server error"), Str("Missing required fields")} }

\* The response to a delivered message.
OkReply == HttpReply(TRUE, Obj([message |-> Str("Message sent successfully!")]))

Replies ==
  {NetworkFailure, OkReply}
  \cup { HttpReply(FALSE, j) : j \in ErrorBodies }

ValidationMessage == "Veuillez remplir tous les champs obligatoires."
SuccessMessage == "Votre message a ete envoye avec succes !"
GenericErrorMessage == "Une erreur est survenue lors de l'envoi du message."
NetworkErrorMessage == "Une erreur reseau est survenue. Veuillez reessayer plus tard."

EmptyForm == [name |-> "", email |-> "", message |-> ""]

\* A client-side validation that looks at the name only.
FormIncomplete_NameOnly(fd) == ~Truthy(Str(fd.name))

\* if (!formData.name || !formData.email || !formData.message)
FormIncomplete(fd) ==
  ~Truthy(Str(fd.name)) \/ ~Truthy(Str(fd.email)) \/ ~Truthy(Str(fd.message))

\* RenderContact with a submit button that is never disabled.
RenderContact_NeverDisabled ==
  [fields |-> formData,
   disabled |-> FALSE,
   buttonText |-> IF isSubmitting THEN "Envoi en cours..." ELSE "Envoyer le message",
   feedback |-> IF Truthy(submitMessage) THEN submitMessage ELSE Null]

\* What the form shows: the three inputs' values, the submit button's disabled
\* attribute and label, and the feedback paragraph (Null when not rendered).
RenderContact ==
  [fields |-> formData,
   disabled |-> isSubmitting,
   buttonText |-> IF isSubmitting THEN "Envoi en cours..." ELSE "Envoyer le message",
   feedback |-> IF Truthy(submitMessage) THEN submitMessage ELSE Null]

\* The sequence q without its i-th element.
RemoveAt(q, i) == [k \in 1..(Len(q) - 1) |-> IF k < i THEN q[k] ELSE q[k + 1]]

\* A handleChange whose edits also reach the bodies of requests not yet answered.
handleChange_EditsRequest(f, v) ==
  /\ v # formData[f]
  /\ formData' = [formData EXCEPT ![f] = v]
  /\ flight' = [i \in 1..Len(flight) |->
                  [flight[i] EXCEPT !.payload = [@ EXCEPT ![f] = v]]]
  /\ UNCHANGED <<isSubmitting, submitMessage, loaderVars, routeVars>>

\* handleChange: onChange of an input or of the textarea.
handleChange(f, v) ==
  /\ v # formData[f]
  /\ formData' = [formData EXCEPT ![f] = v]
  /\ UNCHANGED <<isSubmitting, submitMessage, flight, loaderVars, routeVars>>

\* handleSubmit without the client-side validation.
handleSubmit_NoValidation ==
  /\ ~RenderContact.disabled
  /\ Len(flight) < MaxInFlight
  /\ submitMessage' = Null
  /\ isSubmitting' = TRUE
  /\ flight' = Append(flight, [payload |-> formData, stage |-> "fetch", reply |-> Null])
  /\ UNCHANGED <<formData, loaderVars, routeVars>>

\* handleSubmit up to its first await, on a submission through the submit
\* button: setSubmitMessage(null), setIsSubmitting(true), then either the
\* validation message and setIsSubmitting(false), or the fetch with
\* JSON.stringify(formData) as body. The handler validates whatever the
\* browser's own `required` check does.
handleSubmit ==
  /\ ~RenderContact.disabled
  /\ Len(flight) < MaxInFlight
  /\ IF FormIncomplete(formData)
       THEN /\ submitMessage' = Str(ValidationMessage)
            /\ isSubmitting' = FALSE
            /\ UNCHANGED flight
       ELSE /\ submitMessage' = Null
            /\ isSubmitting' = TRUE
            /\ flight' = Append(flight, [payload |-> formData, stage |-> "fetch", reply |-> Null])
  /\ UNCHANGED <<formData, loaderVars, routeVars>>

\* SubmitFetchSettles whose success branch does not call setFormData.
SubmitFetchSettles_NoReset(i, r) ==
  /\ i \in 1..Len(flight)
  /\ flight[i].stage = "fetch"
  /\ IF r.t = "rejected"
       THEN /\ submitMessage' = Str(NetworkErrorMessage)
            /\ isSubmitting' = FALSE
            /\ flight' = RemoveAt(flight, i)
            /\ UNCHANGED formData
       ELSE IF r.ok
         THEN /\ submitMessage' = Str(SuccessMessage)
              /\ UNCHANGED formData
              /\ isSubmitting' = FALSE
              /\ flight' = RemoveAt(flight, i)
         ELSE /\ flight' = [flight EXCEPT ![i] = [@ EXCEPT !.stage = "json", !.reply = r]]
              /\ UNCHANGED <<formData, isSubmitting, submitMessage>>
  /\ UNCHANGED <<loaderVars, routeVars>>

\* The fetch of the i-th unfinished submission settles with r: a rejection goes
\* to catch and finally; an ok response to the success branch and finally; any
\* other response to `await response.json()`.
SubmitFetchSettles(i, r) ==
  /\ i \in 1..Len(flight)
  /\ flight[i].stage = "fetch"
  /\ IF r.t = "rejected"
       THEN /\ submitMessage' = Str(NetworkErrorMessage)
            /\ isSubmitting' = FALSE
            /\ flight' = RemoveAt(flight, i)
            /\ UNCHANGED formData
       ELSE IF r.ok
         THEN /\ submitMessage' = Str(SuccessMessage)
              /\ formData' = EmptyForm
              /\ isSubmitting' = FALSE
              /\ flight' = RemoveAt(flight, i)
         ELSE /\ flight' = [flight EXCEPT ![i] = [@ EXCEPT !.stage = "json", !.reply = r]]
              /\ UNCHANGED <<formData, isSubmitting, submitMessage>>
  /\ UNCHANGED <<loaderVars, routeVars>>

\* SubmitJsonSettles whose setIsSubmitting(false) sits at the end of the else
\* branch instead of in finally: a throw skips it.
SubmitJsonSettles_NoFinally(i) ==
  /\ i \in 1..Len(flight)
  /\ flight[i].stage = "json"
  /\ LET errorData == flight[i].reply.json IN
     IF errorData.t = "invalid" \/ errorData.t = "null"
       THEN /\ submitMessage' = Str(NetworkErrorMessage)
            /\ UNCHANGED isSubmitting
       ELSE /\ submitMessage' =
                 IF Truthy(errorData.v.message) THEN errorData.v.message
                 ELSE Str(GenericErrorMessage)
            /\ isSubmitting' = FALSE
  /\ flight' = RemoveAt(flight, i)
  /\ UNCHANGED <<formData, loaderVars, routeVars>>

\* SubmitJsonSettles that ignores errorData.message.
SubmitJsonSettles_AlwaysGeneric(i) ==
  /\ i \in 1..Len(flight)
  /\ flight[i].stage = "json"
  /\ LET errorData == flight[i].reply.json IN
     submitMessage' =
       IF errorData.t = "invalid" \/ errorData.t = "null"
         THEN Str(NetworkErrorMessage)
       ELSE Str(GenericErrorMessage)
  /\ isSubmitting' = FALSE
  /\ flight' = RemoveAt(flight, i)
  /\ UNCHANGED <<formData, loaderVars, routeVars>>

\* response.json() of a response that is not ok settles: errorData.message or
\* the generic message; a rejection of json(), or reading .message of null,
\* goes to catch. Then finally.
SubmitJsonSettles(i) ==
  /\ i \in 1..Len(flight)
  /\ flight[i].stage = "json"
  /\ LET errorData == flight[i].reply.json IN
     submitMessage' =
       IF errorData.t = "invalid" \/ errorData.t = "null"
         THEN Str(NetworkErrorMessage)
       ELSE IF Truthy(errorData.v.message) THEN errorData.v.message
       ELSE Str(GenericErrorMessage)
  /\ isSubmitting' = FALSE
  /\ flight' = RemoveAt(flight, i)
  /\ UNCHANGED <<formData, loaderVars, routeVars>>

NextForm ==
  \/ \E f \in Fields, v \in FormValues : handleChange(f, v)
  \/ handleSubmit
  \/ \E i \in 1..MaxInFlight, r \in Replies : SubmitFetchSettles(i, r)
  \/ \E i \in 1..MaxInFlight : SubmitJsonSettles(i)

SpecForm == InitRoute /\ [][NextForm]_vars

\* ------------------------------------- contact form with its relay endpoint

\* What request.json() yields for the body JSON.stringify(formData): an object
\* with the three fields as strings.
RequestBody(fd) ==
  Obj([name |-> Str(fd.name), email |-> Str(fd.email), message |-> Str(fd.message)])

\* What the form's fetch resolves with for NextResponse.json({ message }, { status }):
\* ok is status in 200..299, and json() yields the object with the message.
ReplyOf(resp) ==
  HttpReply(resp.v.status \in 200..299, Obj([message |-> Str(resp.v.message)]))

\* The request of the i-th unfinished submission reaches the endpoint.
ContactRequest(i, tr) ==
  /\ i \in 1..Len(flight)
  /\ flight[i].stage = "fetch"
  /\ routePc = "idle"
  /\ PostReceive(RequestBody(flight[i].payload), tr)

\* The request is lost before it reaches the endpoint: fetch rejects.
ContactNetworkFailure(i) ==
  /\ routePc = "idle"
  /\ SubmitFetchSettles(i, NetworkFailure)

\* The endpoint's response reaches the form: handleSubmit goes on after
\* `await fetch`, as in SubmitFetchSettles, and the endpoint is idle again.
ContactResponse(i) ==
  /\ i \in 1..Len(flight)
  /\ flight[i].stage = "fetch"
  /\ routePc = "responded"
  /\ routePc' = "idle"
  /\ IF ReplyOf(response).ok
       THEN /\ submitMessage' = Str(SuccessMessage)
            /\ formData' = EmptyForm
            /\ isSubmitting' = FALSE
            /\ flight' = RemoveAt(flight, i)
       ELSE /\ flight' = [flight EXCEPT ![i] = [@ EXCEPT !.stage = "json",
                                                        !.reply = ReplyOf(response)]]
            /\ UNCHANGED <<formData, isSubmitting, submitMessage>>
  /\ UNCHANGED <<body, transport, attempts, response, logged, loaderVars>>

NextContact ==
  \/ \E f \in Fields, v \in FormValues : handleChange(f, v)
  \/ handleSubmit
  \/ \E i \in 1..MaxInFlight, tr \in {"up", "down"} : ContactRequest(i, tr)
  \/ \E i \in 1..MaxInFlight : ContactNetworkFailure(i)
  \/ PostAfterJson
  \/ SendMailResolve
  \/ SendMailReject
  \/ \E i \in 1..MaxInFlight : ContactResponse(i)
  \/ \E i \in 1..MaxInFlight : SubmitJsonSettles(i)

SpecContact == InitRoute /\ [][NextContact]_vars

\* The page as page.tsx mounts it (no section is seeded), where React runs
\* every mount effect and every issued query settles.
LiveFairness == \A s \in Sections : WF_vars(MountEffect(s)) /\ WF_vars(FetchSettles(s))

SpecLive == InitRoute /\ [][Next]_vars /\ LiveFairness

\* ------------------------------------------------------------------ claims

\* The _ids of a collection, in order: what a content view lists.
IdsOf(q) == [i \in 1..Len(q) |-> q[i]._id]

\* The indices of the planning entries whose location is defined (an object,
\* neither absent nor null), and the k-th of them in the given order.
Located(q) == { i \in 1..Len(q) : q[i].location.t = "object" }
KthLocated(q, k) == CHOOSE i \in Located(q) : Cardinality({ j \in Located(q) : j < i }) = k - 1

C2_UnseededStartsLoading ==
  \A s \in Sections :
    (initial[s].t = "undefined" /\ issued[s] - pending[s] = 0) =>
      /\ loading[s]
      /\ error[s] = Null
      /\ Len(items[s]) = 0
      /\ Render(s).view = "loading"
      /\ IF mounted[s] THEN issued[s] = 1 /\ pending[s] = 1 ELSE issued[s] = 0

\* An unseeded section after its mount effect, its one fetch in flight.
C2_Witness ==
  \E s \in Sections :
    initial[s].t = "undefined" /\ mounted[s] /\ issued[s] = 1 /\ pending[s] = 1

\* C3: in each of the three sections, a fetch that resolves with N items leads
\* to loading false and error null, with the content view listing exactly those
\* N items, and showing the "nothing available" message when N = 0.
C3_LoadedRendersItemsOrEmptyMessage ==
  [][\A s \in Sections : \A data \in FetchResults(s) :
       FetchResolve(s, data) =>
         /\ ~loading'[s]
         /\ error'[s] = Null
         /\ Render(s)'.view = "content"
         /\ Render(s)'.list = IdsOf(data)
         /\ (Len(data) = 0 => Render(s)'.emptyMessage)]_vars

\* C4: a fetch that throws leads to loading false and the section's fixed
\* message as error, shown in the error view with the retry button; and a click
\* on the retry button issues exactly one new fetch.
C4_FailureShowsErrorAndRetry ==
  [][\A s \in Sections :
       /\ FetchReject(s) =>
            /\ ~loading'[s]
            /\ error'[s] = Str(ErrorMessage(s))
            /\ Render(s)'.view = "error"
            /\ Render(s)'.errorText = Str(ErrorMessage(s))
            /\ Render(s)'.retry
       /\ ClickRetry(s) =>
            /\ issued'[s] = issued[s] + 1
            /\ pending'[s] = pending[s] + 1]_vars

\* A section whose mount fetch failed, was retried, and failed again.
C4_Witness ==
  \E s \in Sections :
    issued[s] = 2 /\ pending[s] = 0 /\ Render(s).view = "error" /\ Render(s).retry

\* C5: a section never has more than one fetch in flight, and shows no retry
\* button while one is.
C5_AtMostOneFetchInFlight ==
  \A s \in Sections :
    /\ pending[s] <= 1
    /\ pending[s] > 0 => ~Render(s).retry

\* A retry's fetch in flight.
C5_Witness == \E s \in Sections : issued[s] = 2 /\ pending[s] = 1

\* C6: a failing fetch or a retry in one section leaves the items, loading,
\* error and rendering of the other two sections as they were; and a section in
\* the error view offers its retry button whatever the other sections show.
C6_FailureStaysInItsSection ==
  /\ [](\A s \in Sections : Render(s).view = "error" => Render(s).retry)
  /\ [][\A s \in Sections :
          (FetchReject(s) \/ ClickRetry(s)) =>
            \A u \in Sections \ {s} :
              /\ items'[u] = items[u]
              /\ loading'[u] = loading[u]
              /\ error'[u] = error[u]
              /\ Render(u)' = Render(u)]_vars

\* All three sections fetched; one failed and is being retried while another
\* shows its fetched content and the third its own error.
C6_Witness ==
  \E s, u, w \in Sections :
    /\ s # u /\ u # w /\ s # w
    /\ \A x \in Sections : initial[x].t = "undefined"
    /\ issued[s] = 2 /\ pending[s] = 1
    /\ Render(u).view = "content" /\ issued[u] = 1
    /\ Render(w).view = "error"

\* C7: the position handed to the map is the (lat, lng) of the first planning
\* entry, in the given order, whose location is defined; when no entry has one
\* (the empty collection included) it is [48.8566, 2.3522] and the popup text is
\* "Prochainement ici !".
C7_PositionIsFirstLocated ==
  LET q == items["Planning"] IN
  /\ Located(q) # {} =>
       position(q) = <<q[KthLocated(q, 1)].location.v.lat, q[KthLocated(q, 1)].location.v.lng>>
  /\ Located(q) = {} =>
       position(q) = <<488566, 23522>> /\ popupText(q) = <<"Prochainement ici !">>
  /\ RenderPlanning.view = "content" =>
       /\ RenderPlanning.map.v.position = position(q)
       /\ RenderPlanning.map.v.popupText = popupText(q)

\* The map is shown for a fetched collection whose first entry has no location
\* and whose second has one.
C7_Witness ==
  LET q == items["Planning"] IN
  /\ RenderPlanning.view = "content"
  /\ initial["Planning"].t = "undefined"
  /\ Len(q) = 2
  /\ q[1].location.t # "object"
  /\ q[2].location.t = "object"

\* C8: in the content view of Planning, the markup holds one record per entry
\* with a location, in order, whose latitude and longitude are that entry's;
\* entries without a location add nothing, and no markup is emitted when no
\* entry has a location.
C8_OneRecordPerLocatedEvent ==
  LET q == items["Planning"]
      schema == RenderPlanning.schema
  IN RenderPlanning.view = "content" =>
       IF Located(q) = {}
         THEN schema = Null
         ELSE /\ schema.t = "array"
              /\ Len(schema.v) = Cardinality(Located(q))
              /\ \A k \in 1..Len(schema.v) :
                   /\ schema.v[k].v.location.geo.latitude = q[KthLocated(q, k)].location.v.lat
                   /\ schema.v[k].v.location.geo.longitude = q[KthLocated(q, k)].location.v.lng

\* Planning fetched a collection with one located and one unlocated entry.
C8_Witness ==
  LET q == items["Planning"] IN
  /\ RenderPlanning.view = "content"
  /\ initial["Planning"].t = "undefined"
  /\ Len(q) = 2
  /\ Cardinality(Located(q)) = 1

\* A field the body carries: a non-empty string (section 4.3 of the
\* specification: the three fields are required non-empty strings).
Carried(x) == x.t = "string" /\ x.v # ""

\* C9: a POST whose body carries name, email and message, with a transport that
\* delivers, is answered with status 200 and the success message.
C9_ValidPostReturns200 ==
  ( /\ routePc = "responded"
    /\ body.t = "object"
    /\ Carried(body.v.name) /\ Carried(body.v.email) /\ Carried(body.v.message)
    /\ transport = "up" ) =>
      /\ response = JsonResponse("Message sent successfully!", 200)
      /\ attempts = 1

\* A complete request answered over a working transport.
C9_Witness ==
  /\ routePc = "responded"
  /\ body.t = "object"
  /\ Carried(body.v.name) /\ Carried(body.v.email) /\ Carried(body.v.message)
  /\ transport = "up"

\* A field is missing from the request when the body is not an object holding
\* it: the key is absent, or there is no JSON object at all.
Missing(b, f) == b.t # "object" \/ b.v[f].t = "undefined"

\* C10: every POST in which name, email or message is missing is answered with
\* status 400.
C10_MissingFieldReturns400 ==
  ( /\ routePc = "responded"
    /\ \E f \in {"name", "email", "message"} : Missing(body, f) ) =>
      response.v.status = 400

\* C11: a POST that carries the three fields and whose transport throws is
\* answered with status 500 and the fixed message "Internal server error"; the
\* cause goes to the log and is no part of the response.
C11_TransportFailureReturnsGeneric500 ==
  ( /\ routePc = "responded"
    /\ body.t = "object"
    /\ Carried(body.v.name) /\ Carried(body.v.email) /\ Carried(body.v.message)
    /\ transport = "down" ) =>
      /\ response = JsonResponse("Internal server error", 500)
      /\ logged = Str(SendMailError)
      /\ response.v.message # logged.v
      /\ attempts = 1

\* A complete request answered after sendMail threw.
C11_Witness ==
  /\ routePc = "responded"
  /\ body.t = "object"
  /\ Carried(body.v.name) /\ Carried(body.v.email) /\ Carried(body.v.message)
  /\ transport = "down"
  /\ logged.t = "string"

\* C12: a submit made while name, email or message is empty issues no request
\* to /api/contact and shows the validation message; every request in flight
\* carries three non-empty fields.
C12_IncompleteSubmitIssuesNoRequest ==
  /\ [](\A i \in 1..Len(flight) : ~FormIncomplete(flight[i].payload))
  /\ [][(handleSubmit /\ \E f \in Fields : formData[f] = "") =>
          /\ flight' = flight
          /\ RenderContact'.feedback = Str(ValidationMessage)]_vars

\* A partly filled form was submitted: validation message, nothing in flight.
C12_Witness ==
  /\ submitMessage = Str(ValidationMessage)
  /\ flight = <<>>
  /\ formData.name # "" /\ formData.email # "" /\ formData.message = ""

\* C13: while a submission is in flight isSubmitting is true and the submit
\* button is disabled, and at most one request to /api/contact is in flight.
C13_AtMostOneSubmissionInFlight ==
  /\ Len(flight) <= 1
  /\ flight # <<>> => (isSubmitting /\ RenderContact.disabled)

\* A request is in flight and the fields were edited since it was sent.
C13_Witness ==
  /\ Len(flight) = 1
  /\ isSubmitting
  /\ formData # flight[1].payload

\* C14: once a submit attempt is over (validation failed, or its request has
\* settled with any outcome) isSubmitting is false.
C14_SubmittingClearedWhenSettled ==
  /\ [](flight = <<>> => ~isSubmitting)
  /\ [][(Len(flight') < Len(flight) \/ (handleSubmit /\ flight' = flight)) =>
          ~isSubmitting']_vars

\* A submission ended in the catch block (network error, or an error response
\* whose body cannot be parsed).
C14_Witness ==
  /\ submitMessage = Str(NetworkErrorMessage)
  /\ flight = <<>>
  /\ ~isSubmitting

\* C15: when the endpoint answers a submission with a 2xx status, the three
\* fields are reset to the empty string and the success message is shown.
C15_SuccessResetsFields ==
  [][(\E i \in 1..MaxInFlight : SubmitFetchSettles(i, OkReply)) =>
       /\ RenderContact'.fields = [name |-> "", email |-> "", message |-> ""]
       /\ RenderContact'.feedback = Str(SuccessMessage)]_vars

\* A submission succeeded: empty fields under the success message.
C15_Witness ==
  /\ submitMessage = Str(SuccessMessage)
  /\ formData = [name |-> "", email |-> "", message |-> ""]
  /\ flight = <<>>
  /\ ~isSubmitting

\* The message an error response carries: a non-empty string under `message`.
ServerMessage(j) ==
  IF j.t = "object" /\ j.v.message.t = "string" /\ j.v.message.v # ""
    THEN j.v.message
    ELSE Null

\* C16: when a submission ends with a response that is not 2xx or with a
\* network failure, an error message is shown, the server's when the response
\* carries one and one of the two fixed texts otherwise, and the three fields
\* keep their values.
C16_FailureShowsErrorKeepsFields ==
  [][/\ (\E i \in 1..MaxInFlight : SubmitFetchSettles(i, NetworkFailure)) =>
          /\ RenderContact'.feedback = Str(NetworkErrorMessage)
          /\ RenderContact'.fields = formData
     /\ \A i \in 1..Len(flight) :
          (flight[i].stage = "json" /\ SubmitJsonSettles(i)) =>
            /\ RenderContact'.fields = formData
            /\ LET m == ServerMessage(flight[i].reply.json) IN
               IF m # Null
                 THEN RenderContact'.feedback = m
                 ELSE RenderContact'.feedback \in
                        {Str(GenericErrorMessage), Str(NetworkErrorMessage)}
     /\ (\E i \in 1..MaxInFlight, r \in Replies \ {OkReply, NetworkFailure} :
           SubmitFetchSettles(i, r)) => formData' = formData]_vars

\* The server's message is shown over the fields as they were submitted.
C16_Witness ==
  /\ submitMessage = Str("Internal server error")
  /\ flight = <<>>
  /\ ~FormIncomplete(formData)

\* C17: in each section the retry button is the only control: a click on it is
\* taken in the error view and leaves loading true and error null with the new
\* fetch unsettled; after mount a fetch is issued from the error view only; and
\* the content view, fetched or seeded, never changes again.
C17_RetryIsTheOnlyUserTransition ==
  [][\A s \in Sections :
       /\ ClickRetry(s) =>
            /\ Render(s).view = "error"
            /\ loading'[s] /\ error'[s] = Null
            /\ Render(s)'.view = "loading"
            /\ pending'[s] = 1
       /\ (mounted[s] /\ issued'[s] # issued[s]) =>
            (Render(s).view = "error" /\ ClickRetry(s))
       /\ Render(s).view = "content" =>
            /\ ~Render(s).retry
            /\ Render(s)' = Render(s)
            /\ <<items[s], loading[s], error[s], pending[s], issued[s]>>' =
                 <<items[s], loading[s], error[s], pending[s], issued[s]>>]_vars

\* A retried section waits for its second fetch while a seeded one shows its
\* content.
C17_Witness ==
  \E s, u \in Sections :
    /\ issued[s] = 2 /\ loading[s] /\ error[s] = Null /\ pending[s] = 1
    /\ Truthy(initial[u]) /\ mounted[u] /\ Render(u).view = "content"

\* C18: a section whose fetch has not settled shows the loading view, and it
\* leaves the loading view only in a step that settles a fetch of that section;
\* nothing issues another fetch meanwhile.
C18_UnsettledFetchStaysLoading ==
  /\ [](\A s \in Sections : pending[s] > 0 => Render(s).view = "loading")
  /\ [][\A s \in Sections :
          /\ (Render(s).view = "loading" /\ Render(s)'.view # "loading") =>
               pending'[s] = pending[s] - 1
          /\ pending[s] > 0 => issued'[s] = issued[s]]_vars

\* One section still waits for its fetch after the two others have settled.
C18_Witness ==
  \E s \in Sections :
    /\ pending[s] = 1 /\ Render(s).view = "loading"
    /\ \A u \in Sections \ {s} :
         initial[u].t = "undefined" /\ mounted[u] /\ pending[u] = 0

\* C19: each section renders exactly one of the loading, error and content
\* views, chosen by loading and error; the error text and the retry button
\* belong to the error view, the items and the "nothing available" message to
\* the content view, and that message is rendered only with no items, loading
\* false and error null.
C19_OneViewAndGuardedEmptyMessage ==
  \A s \in Sections :
    LET r == Render(s) IN
    /\ r.view \in {"loading", "error", "content"}
    /\ r.view = "loading" <=> loading[s]
    /\ r.view = "error" <=> (~loading[s] /\ error[s] # Null)
    /\ r.view = "content" <=> (~loading[s] /\ error[s] = Null)
    /\ (r.errorText # Null) <=> r.view = "error"
    /\ r.retry <=> r.view = "error"
    /\ r.view # "content" => (r.list = <<>> /\ ~r.emptyMessage)
    /\ r.emptyMessage => (Len(items[s]) = 0 /\ ~loading[s] /\ error[s] = Null)

\* Menu fetched an empty collection and says so, beside a failed Gallery and a
\* Planning that is still loading.
C19_Witness ==
  /\ initial["Menu"].t = "undefined"
  /\ RenderMenu.emptyMessage
  /\ RenderGallery.view = "error"
  /\ RenderPlanning.view = "loading"

\* C20: in the content view of Planning every entry of the collection, located
\* or not, is listed exactly once (as often as the collection holds it) and in
\* the collection's order, also when the markup leaves entries out; a fetch
\* that resolves lists what it returned.
C20_EveryEntryListedOnceInOrder ==
  /\ [](LET q == items["Planning"]
            list == RenderPlanning.list
        IN RenderPlanning.view = "content" =>
             /\ Len(list) = Len(q)
             /\ \A i \in 1..Len(q) :
                  /\ list[i] = q[i]._id
                  /\ Cardinality({ k \in 1..Len(list) : list[k] = q[i]._id }) =
                       Cardinality({ k \in 1..Len(q) : q[k] = q[i] }))
  /\ [][\A data \in FetchResults("Planning") :
          FetchResolve("Planning", data) =>
            RenderPlanning'.list = [i \in 1..Len(data) |-> data[i]._id]]_vars

\* Planning fetched two entries: both are listed, one is in the markup.
C20_Witness ==
  /\ initial["Planning"].t = "undefined"
  /\ RenderPlanning.view = "content"
  /\ Len(RenderPlanning.list) = 2
  /\ RenderPlanning.schema # Null
  /\ Len(RenderPlanning.schema.v) = 1

\* C21: in the content view of Planning, when some entry has a location the
\* popup text handed to the map is that entry's place, " - " and its time, for
\* the very entry whose coordinates are the map position (the first located
\* one); the fallback text is handed over exactly when no entry has a location.
\* For the collection (Mardi at Lamastre, Vendredi at the Mairie) the map gets
\* [44.9865, 4.5833] and "Marche de Lamastre - 8h-13h".
C21_PopupFromSelectedEntry ==
  LET q == items["Planning"]
      m == RenderPlanning.map
  IN RenderPlanning.view = "content" =>
       /\ (m.v.popupText = <<"Prochainement ici !">>) <=> (Located(q) = {})
       /\ Located(q) # {} =>
            LET e == q[KthLocated(q, 1)] IN
            /\ m.v.popupText = <<e.place, " - ", e.time>>
            /\ m.v.position = <<e.location.v.lat, e.location.v.lng>>
       /\ (Len(q) = 2 /\ q[1]._id = "1" /\ q[2]._id = "2") =>
            /\ m.v.position = <<449865, 45833>>
            /\ m.v.popupText = <<"Marche de Lamastre", " - ", "8h-13h">>

\* Planning fetched an unlocated Jeudi entry followed by the Lamastre entry:
\* the popup names Lamastre.
C21_Witness ==
  LET q == items["Planning"] IN
  /\ initial["Planning"].t = "undefined"
  /\ RenderPlanning.view = "content"
  /\ Len(q) = 2 /\ q[1]._id = "3" /\ q[2]._id = "1"
  /\ RenderPlanning.map.v.popupText = <<"Marche de Lamastre", " - ", "8h-13h">>

\* C22: a request leads to at most one call of sendMail: one when the body
\* carries the three fields, none when it is answered with 400, no second one
\* after the call threw; and a 200 response follows one call that resolved.
C22_AtMostOneDeliveryAttempt ==
  /\ [](/\ attempts \in {0, 1}
        /\ routePc = "sendMail" => attempts = 1
        /\ routePc = "responded" =>
             /\ ( /\ body.t = "object"
                  /\ Carried(body.v.name) /\ Carried(body.v.email)
                  /\ Carried(body.v.message) ) => attempts = 1
             /\ response.v.status = 400 => attempts = 0
             /\ response.v.status = 200 => (attempts = 1 /\ transport = "up"))
  /\ [][/\ attempts' > attempts =>
             (routePc = "json" /\ routePc' = "sendMail" /\ attempts = 0)
        /\ SendMailReject =>
             (attempts' = attempts /\ routePc' = "responded"
              /\ response'.v.status = 500)]_vars

\* A request whose single delivery attempt failed has been answered with 500.
C22_Witness ==
  /\ routePc = "responded"
  /\ attempts = 1
  /\ transport = "down"
  /\ response.v.status = 500

\* C23: a section mounted with the empty array as its initial items renders the
\* loading view, as the "Loading" stories of Menu, Gallery and Planning say.
C23_EmptySeedShowsLoading ==
  \A s \in Sections :
    (mounted[s] /\ initial[s].t = "array" /\ Len(initial[s].v) = 0) =>
      Render(s).view = "loading"

\* C24: a fetch that fails, and the retry that follows it, leave the section's
\* items as they were: the items change only when a fetch resolves, to what it
\* returned, so a section that has only seen failures still holds its initial
\* (empty) collection.
C24_FailureKeepsItems ==
  /\ [](\A s \in Sections :
          (Render(s).view = "error" \/ (pending[s] > 0 /\ issued[s] > 1)) =>
            items[s] = <<>>)
  /\ [][\A s \in Sections :
          /\ (FetchReject(s) \/ ClickRetry(s)) => items' = items
          /\ items'[s] # items[s] =>
               \E data \in FetchResults(s) : FetchResolve(s, data) /\ items'[s] = data]_vars

\* A section has failed twice and still holds no items, while another one
\* shows what its retried fetch returned.
C24_Witness ==
  \E s, u \in Sections :
    /\ issued[s] = 2 /\ pending[s] = 0 /\ Render(s).view = "error" /\ items[s] = <<>>
    /\ issued[u] = 2 /\ Render(u).view = "content" /\ Len(items[u]) > 0

\* C25: every request the form sends to the endpoint carries name, email and
\* message as non-empty strings and passes the endpoint's presence check, so a
\* submission made through the form is answered with 200 or 500, never with 400.
C25_FormSubmissionNever400 ==
  /\ \A i \in 1..Len(flight) :
       /\ \A f \in Fields : flight[i].payload[f] # ""
       /\ flight[i].stage = "json" =>
            flight[i].reply.json.v.message = Str("Internal server error")
  /\ routePc # "idle" =>
       /\ body.t = "object"
       /\ Carried(body.v.name) /\ Carried(body.v.email) /\ Carried(body.v.message)
       /\ ~MissingFields(body.v.name, body.v.email, body.v.message)
  /\ routePc = "responded" => response.v.status \in {200, 500}
  /\ submitMessage # Str("Missing required fields")

\* A submission went through the endpoint, whose delivery failed, and the form
\* shows the endpoint's message.
C25_Witness ==
  /\ routePc = "idle"
  /\ attempts = 1
  /\ response.v.status = 500
  /\ flight = <<>>
  /\ submitMessage = Str("Internal server error")

\* C26 as stated: a POST whose body is not JSON, or is a JSON value that is not
\* an object, is answered with status 500 and the generic message, without a
\* delivery attempt.
C26_NonObjectBodyReturns500 ==
  (routePc = "responded" /\ body.t # "object") =>
    (response = JsonResponse("Internal server error", 500) /\ attempts = 0)

\* C26, amended: a POST whose body is not JSON, or is the JSON value null, is
\* answered with status 500 and the generic message; a body that is a number
\* or a boolean is answered with 400; neither leads to a delivery attempt; and
\* every request gets one response, whose status is 200, 400 or 500.
C26_UnreadableBodyReturns500 ==
  /\ [](/\ (routePc = "responded" /\ body.t \in {"invalid", "null"}) =>
             (response = JsonResponse("Internal server error", 500) /\ attempts = 0)
        /\ (routePc = "responded" /\ body.t \in {"number", "boolean"}) =>
             (response = JsonResponse("Missing required fields", 400) /\ attempts = 0)
        /\ routePc = "responded" => response.v.status \in {200, 400, 500}
        /\ routePc \in {"json", "sendMail"} => response = Null)
  /\ [][response' # response =>
          \/ (response = Null /\ routePc # "responded" /\ routePc' = "responded")
          \/ (response' = Null /\ routePc' = "json")]_vars

\* A request whose body is the JSON value null was answered with 500 by the
\* catch block.
C26_Witness ==
  /\ routePc = "responded"
  /\ body = Null
  /\ logged = Str(DestructureTypeError)
  /\ response = JsonResponse("Internal server error", 500)

\* C27: the body of a submission is the field values at the moment of submit:
\* edits made while it is in flight change neither the request in flight nor
\* what the endpoint receives; when the endpoint answers 200 the three fields
\* are reset to empty whatever was typed meanwhile, and on any failure the
\* fields stay as edited.
C27_PayloadIsSnapshotAtSubmit ==
  /\ [](\A i \in 1..Len(flight) :
          (flight[i].stage = "fetch" /\ routePc # "idle") =>
            body = RequestBody(flight[i].payload))
  /\ [][/\ (handleSubmit /\ Len(flight') > Len(flight)) =>
             flight'[Len(flight')].payload = formData
        /\ \A f \in Fields, v \in FormValues :
             handleChange(f, v) => (flight' = flight /\ body' = body)
        /\ \A i \in 1..Len(flight) :
             /\ \A tr \in {"up", "down"} :
                  ContactRequest(i, tr) => body' = RequestBody(flight[i].payload)
             /\ ContactResponse(i) =>
                  IF response.v.status = 200
                    THEN formData' = [name |-> "", email |-> "", message |-> ""]
                    ELSE formData' = formData
             /\ (ContactNetworkFailure(i) \/ SubmitJsonSettles(i)) =>
                  formData' = formData]_vars

\* The endpoint is delivering a submission whose fields have been edited since
\* it was sent.
C27_Witness ==
  /\ Len(flight) = 1
  /\ routePc = "sendMail"
  /\ body = RequestBody(flight[1].payload)
  /\ formData # flight[1].payload
  /\ ~FormIncomplete(formData)

\* C28: Planning renders its list, its map and its event markup in the content
\* view only (fetched or seeded): the loading view is the placeholder alone,
\* the error view the message and the retry button alone, so no map position
\* is shown while loading is true or error is set.
C28_MapListMarkupOnlyInContent ==
  LET r == RenderPlanning IN
  /\ r.view # "content" => (r.map = Null /\ r.schema = Null /\ r.list = <<>>)
  /\ r.view = "loading" => (r.errorText = Null /\ ~r.retry)
  /\ r.view = "content" => r.map # Null
  /\ r.map # Null => (~loading["Planning"] /\ error["Planning"] = Null)
  /\ (loading["Planning"] \/ error["Planning"] # Null) => r.map = Null

\* Planning has failed, been retried and failed again: no map, although the
\* other two sections show their content.
C28_Witness ==
  /\ issued["Planning"] = 2
  /\ RenderPlanning.view = "error"
  /\ RenderPlanning.map = Null
  /\ RenderMenu.view = "content"
  /\ RenderGallery.view = "content"

\* C29: in a section mounted without seed data, when every issued fetch
\* settles, loading always becomes false again: the first fetch and every
\* retried one end in the content view or in the error view.
C29_LoadingEventuallyFalse ==
  \A s \in Sections :
    loading[s] ~> (~loading[s] /\ pending[s] = 0 /\ Render(s).view \in {"content", "error"})

\* A section is out of the loading view after a retry, its two fetches settled.
C29_Witness ==
  \E s \in Sections :
    /\ initial[s].t = "undefined"
    /\ issued[s] = MaxFetches
    /\ pending[s] = 0
    /\ ~loading[s]
====
